---- MODULE Spec2Model ----
(***************************************************************************)
(* Model of the Thorlabs KDC101 protocol layer: message codec, transaction *)
(* engine, unit conversions, status decoder and command catalogue.         *)
(*                                                                         *)
(* Number representations (TLC integers are 32-bit signed):                *)
(*   byte, uint16, int16, int32  plain integers in their range             *)
(*   uint32                      [hi, lo], two 16-bit halves               *)
(*   float64 argument            integer count of thousandths (10.0 mm is  *)
(*                               10000), of tenths for an acceleration     *)
(*                               (1.2 mm/s^2 is 12); the products the      *)
(*                               converters form are computed exactly on   *)
(*                               decimal limbs                             *)
(*   float64 result              [neg, num, den], the exact quotient       *)
(*                                                                         *)
(* Besides the program's state (k, call, rx) the model records where each  *)
(* byte on the wire came from: tags[i] names the request that rx[i]        *)
(* answers and its place in the reply, got[c] the tags of the bytes that   *)
(* caller c's call has read.                                               *)
(***************************************************************************)
EXTENDS Integers, Sequences, FiniteSets, TLC

VARIABLES k, call, rx, tags, got

vars == <<k, call, rx, tags, got>>

(***************************************************************************)
(* Bounds of the model.                                                    *)
(***************************************************************************)
\* longest payload the modelled device sends
MaxPayloadLen == 85
\* positions range over -MaxPosSteps..MaxPosSteps steps of 2.5 mm
MaxPosSteps == 4
\* velocities and accelerations range over 0..MaxVelSteps steps of 1.2
MaxVelSteps == 1

(***************************************************************************)
(* Bit and byte arithmetic.                                                *)
(***************************************************************************)
RECURSIVE BitAnd(_, _)
BitAnd(a, b) ==
    IF a = 0 \/ b = 0 THEN 0
    ELSE (a % 2) * (b % 2) + 2 * BitAnd(a \div 2, b \div 2)

RECURSIVE BitOr(_, _)
BitOr(a, b) ==
    IF a = 0 THEN b
    ELSE IF b = 0 THEN a
    ELSE (IF a % 2 = 1 \/ b % 2 = 1 THEN 1 ELSE 0) + 2 * BitOr(a \div 2, b \div 2)

Byte == 0..255

\* byte(x): the low eight bits
ToByte(x) == x % 256

Dword(hi, lo) == [hi |-> hi, lo |-> lo]

\* uint32(x) of an int32 x
Uint32OfInt32(v) == Dword((v \div 65536) % 65536, v % 65536)

\* int32(x) of a uint32 x
Int32OfUint32(d) ==
    IF d.hi >= 32768 THEN (d.hi - 65536) * 65536 + d.lo ELSE d.hi * 65536 + d.lo

\* binary.LittleEndian.Uint32 / PutUint32 / Uint16 / PutUint16
LittleEndianUint32(data) == Dword(data[4] * 256 + data[3], data[2] * 256 + data[1])

LittleEndianPutUint32(d) == <<d.lo % 256, d.lo \div 256, d.hi % 256, d.hi \div 256>>

LittleEndianUint16(data) == data[2] * 256 + data[1]

LittleEndianPutUint16(w) == <<w % 256, w \div 256>>

BytesToLong(data) == Int32OfUint32(LittleEndianUint32(data))

LongToBytes(value) == LittleEndianPutUint32(Uint32OfInt32(value))

BytesToDword(data) == LittleEndianUint32(data)

DwordToBytes(value) == LittleEndianPutUint32(value)

BytesToWord(data) == LittleEndianUint16(data)

WordToBytes(value) == LittleEndianPutUint16(value)

\* a decoder that takes the 16 bits as unsigned
BytesToShortUnsigned(data) == LittleEndianUint16(data)

BytesToShort(data) ==
    LET w == LittleEndianUint16(data) IN IF w >= 32768 THEN w - 65536 ELSE w

\* Go's data[lo:hi] on a slice that is long enough (0-based, hi exclusive)
Slice(data, lo, hi) == SubSeq(data, lo + 1, hi)

(***************************************************************************)
(* Exact decimal arithmetic: a number is a little-endian sequence of       *)
(* NumLimbs limbs in base 10^4; a fixed-point number carries 16 decimals   *)
(* (its four low limbs).                                                   *)
(***************************************************************************)
Base == 10 ^ 4

NumLimbs == 6 + 6

BigZero == [i \in 1..NumLimbs |-> 0]

BigOf(n) ==
    [i \in 1..NumLimbs |->
        IF i = 1 THEN n % Base
        ELSE IF i = 2 THEN (n \div Base) % Base
        ELSE IF i = 3 THEN n \div (Base * Base)
        ELSE 0]

RECURSIVE BigMulFrom(_, _, _, _)
BigMulFrom(a, m, i, carry) ==
    IF i > Len(a) THEN <<>>
    ELSE LET t == a[i] * m + carry
         IN  <<t % Base>> \o BigMulFrom(a, m, i + 1, t \div Base)

\* a * m for 0 <= m <= 200000
BigMulSmall(a, m) == BigMulFrom(a, m, 1, 0)

RECURSIVE BigDivFrom(_, _, _, _)
BigDivFrom(a, d, i, rem) ==
    IF i = 0 THEN <<>>
    ELSE LET t == rem * Base + a[i]
         IN  BigDivFrom(a, d, i - 1, t % d) \o <<t \div d>>

\* floor(a / d) for 0 < d <= 200000
BigDivSmall(a, d) == BigDivFrom(a, d, Len(a), 0)

RECURSIVE BigModFrom(_, _, _, _)
BigModFrom(a, d, i, rem) ==
    IF i = 0 THEN rem ELSE BigModFrom(a, d, i - 1, (rem * Base + a[i]) % d)

BigModSmall(a, d) == BigModFrom(a, d, Len(a), 0)

RECURSIVE BigCmpFrom(_, _, _)
BigCmpFrom(a, b, i) ==
    IF i = 0 THEN 0
    ELSE IF a[i] < b[i] THEN -1
    ELSE IF a[i] > b[i] THEN 1
    ELSE BigCmpFrom(a, b, i - 1)

BigLeq(a, b) == BigCmpFrom(a, b, NumLimbs) <= 0

BigLess(a, b) == BigCmpFrom(a, b, NumLimbs) < 0

\* the decimal int.f1f2f3f4 (four digits each) as a fixed-point number
Decimal(int, f1, f2, f3, f4) ==
    [i \in 1..NumLimbs |->
        IF i = 1 THEN f4
        ELSE IF i = 2 THEN f3
        ELSE IF i = 3 THEN f2
        ELSE IF i = 4 THEN f1
        ELSE IF i = 5 THEN int % Base
        ELSE IF i = 6 THEN int \div Base
        ELSE 0]

\* the integer part of a non-negative fixed-point number
BigTrunc(a) == [i \in 1..NumLimbs |-> IF i + 4 <= NumLimbs THEN a[i + 4] ELSE 0]

\* the fixed-point number of a non-negative integer
BigFixed(a) == [i \in 1..NumLimbs |-> IF i > 4 THEN a[i - 4] ELSE 0]

BigFitsInt(a) ==
    /\ \A i \in 4..NumLimbs : a[i] = 0
    /\ \/ a[3] < 21
       \/ a[3] = 21 /\ a[2] * Base + a[1] <= 47483647

BigToInt(a) == a[3] * Base * Base + a[2] * Base + a[1]

BigLow32(a) ==
    Dword(BigModSmall(BigDivSmall(a, 65536), 65536), BigModSmall(a, 65536))

BigFitsUint32(a) == BigDivSmall(BigDivSmall(a, 65536), 65536) = BigZero

RECURSIVE BigAddFrom(_, _, _)
BigAddFrom(a, i, carry) ==
    IF i > Len(a) THEN <<>>
    ELSE LET t == a[i] + carry
         IN  <<t % Base>> \o BigAddFrom(a, i + 1, t \div Base)

\* a + s for 0 <= s < 2^30
BigAddSmall(a, s) == BigAddFrom(a, 1, s)


RECURSIVE BigSumFrom(_, _, _, _)
BigSumFrom(a, b, i, carry) ==
    IF i > Len(a) THEN <<>>
    ELSE LET t == a[i] + b[i] + carry
         IN  <<t % Base>> \o BigSumFrom(a, b, i + 1, t \div Base)

BigAdd(a, b) == BigSumFrom(a, b, 1, 0)

\* a * m for 0 <= m < 2^31, by the parts of m above and below Base
BigMulInt(a, m) ==
    LET high == BigMulSmall(a, m \div Base)
    IN  BigAdd([i \in 1..NumLimbs |-> IF i = 1 THEN 0 ELSE high[i - 1]], BigMulSmall(a, m % Base))

BigOfDword(d) == BigAddSmall(BigMulSmall(BigOf(d.hi), 65536), d.lo)

Abs(x) == IF x < 0 THEN -x ELSE x



MinInt32 == -2147483647 - 1

MaxInt32 == -(MinInt32 + 1)

\* |n| of an int32 n; |MinInt32| is 2^31
BigOfAbs(n) == IF n = MinInt32 THEN BigAddSmall(BigOf(MaxInt32), 1) ELSE BigOf(Abs(n))

(***************************************************************************)
(* Go's conversion of a float64 to an integer type truncates toward zero;  *)
(* when the truncated value does not fit the type the result is            *)
(* implementation-dependent (amd64 yields the low bits or the "integer     *)
(* indefinite" value, arm64 saturates), so every such outcome is possible. *)
(* The value is given as a sign and a non-negative fixed-point magnitude,  *)
(* the result is the set of possible outcomes.                             *)
(***************************************************************************)
Int32OfFloat(neg, mag) ==
    LET t == BigTrunc(mag)
    IN  IF BigFitsInt(t)
        THEN {IF neg THEN -BigToInt(t) ELSE BigToInt(t)}
        ELSE LET low == Int32OfUint32(BigLow32(t))
             IN  {MinInt32, MaxInt32, IF neg /\ low # MinInt32 THEN -low ELSE low}

Uint32OfFloat(neg, mag) ==
    LET t == BigTrunc(mag)
    IN  IF t = BigZero THEN {Dword(0, 0)}
        ELSE IF ~neg /\ BigFitsUint32(t) THEN {BigLow32(t)}
        ELSE LET low == BigLow32(t)
             IN  {Dword(0, 0), Dword(65535, 65535),
                  IF ~neg THEN low
                  ELSE IF low.lo = 0 THEN Dword((65536 - low.hi) % 65536, 0)
                  ELSE Dword(65535 - low.hi, 65536 - low.lo)}

\* the float64 x / y as the exact quotient; den = 0 stands for +-Inf or NaN
Quot(neg, num, den) == [neg |-> neg, num |-> num, den |-> den]

(***************************************************************************)
(* Calibration tables (protocol/utils.go).                                 *)
(***************************************************************************)
\* 2048.0 / (6.0 * 1e6): the numerator and the factors of the denominator
MotorTFactor ==
    [m \in {"Brushed", "Brushless"} |-> [num |-> 2048, den |-> <<6, 1000, 1000>>]]

StageScalingFactor ==
    [s \in {"MTS25-Z8", "MTS50-Z8", "Z8xx", "Z6xx", "PRM1-Z8", "PRMTZ8", "CR1-Z7", "KVS30"} |->
        CASE s \in {"MTS25-Z8", "MTS50-Z8", "Z8xx"} -> Decimal(34554, 9600, 0, 0, 0)
          [] s = "Z6xx"                             -> Decimal(24600, 0, 0, 0, 0)
          [] s \in {"PRM1-Z8", "PRMTZ8"}            -> Decimal(1919, 6418, 5786, 2339, 1000)
          [] s = "CR1-Z7"                           -> Decimal(12288, 0, 0, 0, 0)
          [] s = "KVS30"                            -> Decimal(20000, 0, 0, 0, 0)]

\* a Go map lookup yields the zero value for a missing key
EncCount(kdc) ==
    IF kdc.StageType \in DOMAIN StageScalingFactor
    THEN StageScalingFactor[kdc.StageType] ELSE BigZero

TFactor(kdc) ==
    IF kdc.MotorType \in DOMAIN MotorTFactor
    THEN MotorTFactor[kdc.MotorType] ELSE [num |-> 0, den |-> <<1, 1, 1>>]

\* a product is formed exactly: all factors first, then the divisors
BigTimesTDen(a, T) == BigMulSmall(BigMulSmall(BigMulSmall(a, T.den[1]), T.den[2]), T.den[3])

BigOverTDen(a, T) == BigDivSmall(BigDivSmall(BigDivSmall(a, T.den[1]), T.den[2]), T.den[3])

\* |x| * a for a float64 argument x given in thousandths
BigMulMilli(a, x) == BigDivSmall(BigMulInt(a, Abs(x)), 1000)

(***************************************************************************)
(* Unit conversions (protocol/utils.go).                                   *)
(***************************************************************************)
\* a conversion that rounds the product to the nearest integer
PositionToCountsRounded(kdc, position) ==
    LET encCount == EncCount(kdc)
        half == BigDivSmall(BigFixed(BigOf(1)), 2)
        mag == BigMulMilli(encCount, position)
    IN  Int32OfFloat(position < 0, SubSeq(mag, 1, 3) \o BigAddFrom(mag, 4, half[4]))

PositionToCounts(kdc, position) ==
    LET encCount == EncCount(kdc)
    IN  Int32OfFloat(position < 0, BigMulMilli(encCount, position))

CountsToPosition(kdc, counts) ==
    LET encCount == EncCount(kdc)
    IN  Quot(counts < 0, BigFixed(BigOfAbs(counts)), encCount)

VelocityToCounts(kdc, velocity) ==
    LET encCount == EncCount(kdc)
        T == TFactor(kdc)
    IN  Uint32OfFloat(velocity < 0,
            BigOverTDen(BigMulMilli(BigMulSmall(BigMulSmall(encCount, T.num), 65536), velocity), T))

CountsToVelocity(kdc, counts) ==
    LET encCount == EncCount(kdc)
        T == TFactor(kdc)
    IN  Quot(FALSE, BigTimesTDen(BigFixed(BigOfDword(counts)), T),
             BigMulSmall(BigMulSmall(encCount, T.num), 65536))

AccelerationToCounts(kdc, acceleration) ==
    LET encCount == EncCount(kdc)
        T == TFactor(kdc)
    IN  Uint32OfFloat(acceleration < 0,
            BigOverTDen(BigOverTDen(
                BigDivSmall(
                    BigMulInt(BigMulSmall(BigMulSmall(BigMulSmall(encCount, T.num), T.num), 65536),
                              Abs(acceleration)), 10), T), T))

CountsToAcceleration(kdc, counts) ==
    LET encCount == EncCount(kdc)
        T == TFactor(kdc)
    IN  Quot(counts < 0, BigTimesTDen(BigTimesTDen(BigFixed(BigOfAbs(counts)), T), T),
             BigMulSmall(BigMulSmall(BigMulSmall(encCount, T.num), T.num), 65536))

(***************************************************************************)
(* Status decoder (DCStatusBits, ParseDCStatusBits).                       *)
(***************************************************************************)
\* a test that looks at the low 16 bits only
MaskSetLow(statusBits, mask) == BitAnd(statusBits.lo, mask.lo) # 0

\* a test whose mask is a nibble too wide: it also takes in the four bits below
MaskSetWide(statusBits, mask) ==
    \/ BitAnd(statusBits.hi, BitOr(mask.hi, mask.hi \div 16)) # 0
    \/ BitAnd(statusBits.lo, mask.lo) # 0

\* (statusBits & mask) != 0 on uint32 values
MaskSet(statusBits, mask) ==
    BitAnd(statusBits.hi, mask.hi) # 0 \/ BitAnd(statusBits.lo, mask.lo) # 0

ParseDCStatusBits(statusBits) ==
    [CWHardLimit      |-> MaskSet(statusBits, Dword(\h0000, \h0001)),
     CCWHardLimit     |-> MaskSet(statusBits, Dword(\h0000, \h0002)),
     CWSoftLimit      |-> MaskSet(statusBits, Dword(\h0000, \h0004)),
     CCWSoftLimit     |-> MaskSet(statusBits, Dword(\h0000, \h0008)),
     InMotionCW       |-> MaskSet(statusBits, Dword(\h0000, \h0010)),
     InMotionCCW      |-> MaskSet(statusBits, Dword(\h0000, \h0020)),
     JoggingCW        |-> MaskSet(statusBits, Dword(\h0000, \h0040)),
     JoggingCCW       |-> MaskSet(statusBits, Dword(\h0000, \h0080)),
     IsConnected      |-> MaskSet(statusBits, Dword(\h0000, \h0100)),
     IsHoming         |-> MaskSet(statusBits, Dword(\h0000, \h0200)),
     IsHomed          |-> MaskSet(statusBits, Dword(\h0000, \h0400)),
     IsInitializing   |-> MaskSet(statusBits, Dword(\h0000, \h0800)),
     IsTracking       |-> MaskSet(statusBits, Dword(\h0000, \h1000)),
     IsSettled        |-> MaskSet(statusBits, Dword(\h0000, \h2000)),
     PositionError    |-> MaskSet(statusBits, Dword(\h0000, \h4000)),
     InstructionError |-> MaskSet(statusBits, Dword(\h0000, \h8000)),
     Interlock        |-> MaskSet(statusBits, Dword(\h0001, \h0000)),
     OverTemperature  |-> MaskSet(statusBits, Dword(\h0002, \h0000)),
     BusVoltageFault  |-> MaskSet(statusBits, Dword(\h0004, \h0000)),
     CommutationError |-> MaskSet(statusBits, Dword(\h0008, \h0000)),
     Overload         |-> MaskSet(statusBits, Dword(\h0100, \h0000)),
     EncoderFault     |-> MaskSet(statusBits, Dword(\h0200, \h0000)),
     OverCurrent      |-> MaskSet(statusBits, Dword(\h0400, \h0000)),
     BusCurrentFault  |-> MaskSet(statusBits, Dword(\h0800, \h0000)),
     PowerOk          |-> MaskSet(statusBits, Dword(\h1000, \h0000)),
     IsActive         |-> MaskSet(statusBits, Dword(\h2000, \h0000)),
     Error            |-> MaskSet(statusBits, Dword(\h4000, \h0000)),
     IsEnabled        |-> MaskSet(statusBits, Dword(\h8000, \h0000))]

DCStatusUpdateToSIValue(kdc, update) ==
    [Channel    |-> update.Channel,
     Position   |-> CountsToPosition(kdc, update.Position),
     Velocity   |-> CountsToVelocity(kdc, Dword(0, update.Velocity)),
     Current    |-> Quot(update.Current < 0, BigFixed(BigOf(Abs(update.Current))),
                         BigFixed(BigOf(1))),
     StatusBits |-> ParseDCStatusBits(update.StatusBits)]

(***************************************************************************)
(* Message codec (protocol/protocol.go).                                   *)
(***************************************************************************)
Host == \h01

Rack == \h02

GenericUnit == \h50

ErrNil == "nil"

ErrChannelNotSupported == "KDC101 just supports channel 1"

ErrInvalidResponseLength == "invalid response length"

\* fmt.Errorf("invalid data length: %d", msg.DataLength)
ErrInvalidDataLength == "invalid data length"

\* the Transport's own failures, passed on unchanged
ErrWrite == "transport write failed"

ErrRead == "transport read failed"

\* a run-time panic: slice bounds out of range
Panic == "panic: slice bounds out of range"

InvalidHeader ==
    [ID |-> 0, Parameter1 |-> 0, Parameter2 |-> 0, Destination |-> 0, Source |-> 0]

InvalidData ==
    [ID |-> 0, DataLength |-> 0, Destination |-> 0, Source |-> 0, Data |-> <<>>]

\* the bytes WriteHeaderOnly hands to the Transport
WriteHeaderOnlyBytes(msg) ==
    <<ToByte(BitAnd(msg.ID, \h00FF)),
      ToByte(msg.ID \div 256),
      msg.Parameter1,
      msg.Parameter2,
      msg.Destination,
      msg.Source>>

\* an encoder that leaves the destination byte as it is
WriteDataBytesPlain(msg) ==
    <<ToByte(BitAnd(msg.ID, \h00FF)),
      ToByte(msg.ID \div 256),
      ToByte(BitAnd(msg.DataLength, \h00FF)),
      ToByte(msg.DataLength \div 256),
      msg.Destination,
      msg.Source>> \o msg.Data

\* the bytes WriteData hands to the Transport
WriteDataBytes(msg) ==
    <<ToByte(BitAnd(msg.ID, \h00FF)),
      ToByte(msg.ID \div 256),
      ToByte(BitAnd(msg.DataLength, \h00FF)),
      ToByte(msg.DataLength \div 256),
      BitOr(msg.Destination, \h80),
      msg.Source>> \o msg.Data

\* a decoder that takes the command identifier as big-endian
ReadHeaderOnlyMsgBigEndian(response) ==
    [ID          |-> BitOr(response[1] * 256, response[2]),
     Parameter1  |-> response[3],
     Parameter2  |-> response[4],
     Destination |-> response[5],
     Source      |-> response[6]]

\* the HeaderMessage ReadHeaderOnly builds from the six bytes read
ReadHeaderOnlyMsg(response) ==
    [ID          |-> BitOr(response[2] * 256, response[1]),
     Parameter1  |-> response[3],
     Parameter2  |-> response[4],
     Destination |-> response[5],
     Source      |-> response[6]]

\* a decoder that takes the payload length from the command identifier's bytes
ReadDataMsgShifted(response) ==
    [ID          |-> BitOr(response[2] * 256, response[1]),
     DataLength  |-> BitOr(response[2] * 256, response[1]),
     Destination |-> response[5],
     Source      |-> response[6],
     Data        |-> <<>>]

\* a decoder that keeps the low four bits of the payload length
ReadDataMsgNibble(response) ==
    [ID          |-> BitOr(response[2] * 256, response[1]),
     DataLength  |-> response[3] % 16,
     Destination |-> response[5],
     Source      |-> response[6],
     Data        |-> <<>>]

\* the DataMessage ReadData builds from the six bytes read, before the payload
ReadDataMsg(response) ==
    [ID          |-> BitOr(response[2] * 256, response[1]),
     DataLength  |-> BitOr(response[4] * 256, response[3]),
     Destination |-> response[5],
     Source      |-> response[6],
     Data        |-> <<>>]

(***************************************************************************)
(* Inputs of the model: arguments of the operations and what the device    *)
(* puts on the wire.                                                       *)
(***************************************************************************)
Channels == {0, 1, 2, 255}

Stages == DOMAIN StageScalingFactor \cup {"LTS300"}

Motors == DOMAIN MotorTFactor \cup {"Stepper"}

\* float64 arguments, in thousandths
Positions == {i * 2500 : i \in -MaxPosSteps..MaxPosSteps}

StepSizes == {-2500, 0, 2500}

Velocities == {i * 1200 : i \in 0..MaxVelSteps}

\* accelerations, in tenths; the last one has a count between 2^31 and 2^32 on
\* the stages of the largest scale
Accelerations == {i * 12 : i \in 0..MaxVelSteps} \cup {9 * 10 ^ 7}

Forward == \h01

Reverse == \h02

Abrupt == \h01

Soft == \h02

ChannelMask(channel) == ToByte(2 ^ (channel - 1))

VelocityProfiles ==
    [MinVelocity : Velocities, MaxVelocity : Velocities, Acceleration : Accelerations]

JogParameterSets ==
    [Mode : {1, 2}, StepSize : StepSizes, MinVelocity : Velocities,
     Acceleration : Accelerations, MaxVelocity : Velocities, StopMode : {Abrupt, Soft}]

\* the payloads SetTrapezoidalVelocity can build for a profile
TrapezoidalVelocityData(kdc, channel, profile) ==
    {<<ChannelMask(channel), \h00>> \o DwordToBytes(minVel)
        \o DwordToBytes(accel) \o DwordToBytes(maxVel) :
        minVel \in VelocityToCounts(kdc, profile.MinVelocity),
        accel \in AccelerationToCounts(kdc, profile.Acceleration),
        maxVel \in VelocityToCounts(kdc, profile.MaxVelocity)}

\* the payloads SetJogParameters can build for a parameter set
JogParametersData(kdc, channel, params) ==
    {<<ChannelMask(channel), \h00>> \o WordToBytes(params.Mode)
        \o LongToBytes(stepSize) \o DwordToBytes(minVel)
        \o DwordToBytes(accel) \o DwordToBytes(maxVel)
        \o WordToBytes(params.StopMode) :
        stepSize \in PositionToCounts(kdc, params.StepSize),
        minVel \in VelocityToCounts(kdc, params.MinVelocity),
        accel \in AccelerationToCounts(kdc, params.Acceleration),
        maxVel \in VelocityToCounts(kdc, params.MaxVelocity)}

\* a device that holds what it was given answers a get with the payload of the
\* set: the payloads of some sets on an MTS25-Z8 stage
EchoPayloads ==
    LET kdc == [StageType |-> "MTS25-Z8", MotorType |-> "Brushed", constructed |-> TRUE]
    IN  UNION {TrapezoidalVelocityData(kdc, 1, p) :
                  p \in {q \in VelocityProfiles : q.MinVelocity = 0 /\ q.MaxVelocity = 1200}}
          \cup UNION {JogParametersData(kdc, 1, p) :
                  p \in {q \in JogParameterSets :
                            /\ q.Mode = 1 /\ q.StepSize = 2500 /\ q.StopMode = Soft
                            /\ q.MinVelocity = 0 /\ q.MaxVelocity = 1200}}

Headers ==
    [ID : {\h0000, \h0212, \hFF80}, Parameter1 : {\h01, \hFF},
     Parameter2 : {\h00, \h01, \h02}, Destination : {Host, \hD0},
     Source : {Host, GenericUnit}]

Requests ==
    {[ID |-> \h0005, Parameter1 |-> 0, Parameter2 |-> 0,
      Destination |-> GenericUnit, Source |-> Host],
     [ID |-> \h0211, Parameter1 |-> 1, Parameter2 |-> 0,
      Destination |-> GenericUnit, Source |-> Host]}

\* the reply of the get-DC-status scenario: channel 1, position 0x00054F2E,
\* velocity 0x0032, current 0xFFF6, status bits 0x80000401
DCReply ==
    <<\h01, \h00, \h2E, \h4F, \h05, \h00, \h32, \h00, \hF6, \hFF, \h01, \h04, \h00, \h80>>

BasePayloads ==
    {[i \in 1..MaxPayloadLen |-> IF i <= Len(DCReply) THEN DCReply[i] ELSE (3 * i) % 256],
     [i \in 1..MaxPayloadLen |-> \hFF],
     [i \in 1..MaxPayloadLen |-> (i * 37 + 128) % 256]}

\* payload lengths around the minimum each reply shape needs
PayloadLens ==
    {n \in 1..MaxPayloadLen : n = 1 \/ \E t \in {6, 14, 22, 84} : n \in (t - 1)..(t + 1)}

DevicePayloads == {SubSeq(b, 1, n) : b \in BasePayloads, n \in PayloadLens} \cup EchoPayloads

DataMessages ==
    {[ID |-> id, DataLength |-> Len(d), Destination |-> dst, Source |-> src, Data |-> d] :
        id \in {\h0453, \hFF80}, dst \in {Host, GenericUnit, \hD0}, src \in {GenericUnit},
        d \in {<<\h01>>, <<\h01, \h00, \hCD, \h45, \h05, \h00>>, <<\hFF, \h80>>}}

DeviceMessages ==
    {[ID |-> \h0491, DataLength |-> Len(d), Destination |-> Host, Source |-> GenericUnit,
      Data |-> d] : d \in DevicePayloads}

\* a data header whose payload never arrives, and a header declaring no payload
BareDataHeaders ==
    {SubSeq(WriteDataBytes([ID |-> \h0491, DataLength |-> n, Destination |-> Host,
                            Source |-> GenericUnit, Data |-> <<>>]), 1, 6) : n \in {0, 1, 14, 256}}

HeaderFrames == {WriteHeaderOnlyBytes(h) : h \in Headers}

DataFrames == {WriteDataBytes(m) : m \in DataMessages \cup DeviceMessages} \cup BareDataHeaders

\* the device answers a header request with a header frame, a data request with a
\* data frame (or with its header alone)
DeviceFrames(shape) == IF shape = "header" THEN HeaderFrames ELSE DataFrames

\* what lies behind a short slice when its capacity allows the read
StaleBytes == {\h00, \hFF}

StatusWords ==
    {Dword(hi, lo) : hi \in {0, \h8000, \hFFFF}, lo \in {0, \h0401, \hFFFF}}
      \cup {Dword(0, 2 ^ b) : b \in 0..15} \cup {Dword(2 ^ b, 0) : b \in 0..15}

(***************************************************************************)
(* State: the controller built by New, each caller's call in progress and  *)
(* the bytes the device has sent that the Transport has not handed out.    *)
(***************************************************************************)
\* a single caller: the operations are invoked one at a time
Callers == {1}

NoController == [StageType |-> "", MotorType |-> "", constructed |-> FALSE]

Event(ev, n, bytes, err) == [ev |-> ev, n |-> n, bytes |-> bytes, err |-> err]

Idle ==
    [pc |-> "idle", op |-> "", arg |-> <<>>, io |-> <<>>, err |-> ErrNil, val |-> <<>>,
     shape |-> "none", msg |-> InvalidData, replied |-> FALSE]

Done(op, arg, io, err, val) ==
    [pc |-> "done", op |-> op, arg |-> arg, io |-> io, err |-> err, val |-> val,
     shape |-> "none", msg |-> InvalidData, replied |-> FALSE]

Init ==
    /\ k = NoController
    /\ call = [c \in Callers |-> Idle]
    /\ rx = <<>>
    /\ tags = <<>>
    /\ got = [c \in Callers |-> <<>>]

\* a controller that lets a call start only when no other call is in progress
ReadyWhenFree(c) == k.constructed /\ \A d \in DOMAIN call : call[d].pc = "idle"

Ready(c) == k.constructed /\ call[c].pc = "idle"

WriteResults == {ErrNil, ErrWrite}

(***************************************************************************)
(* Transaction engine (protocol/protocol.go).  A Transport write succeeds  *)
(* or fails; a Transport read of n bytes hands out the next n bytes the    *)
(* device sent, or fails when they have not arrived.  A call is suspended  *)
(* at each read, where the device may answer.                              *)
(***************************************************************************)
FloatZero == Quot(FALSE, BigZero, BigFixed(BigOf(1)))

ZeroVal(op) ==
    CASE op = "IsEnabled" -> FALSE
      [] op \in {"ReadHeaderOnly", "RequestHeaderOnly"} -> InvalidHeader
      [] op \in {"ReadData", "RequestData"} -> InvalidData
      [] op = "GetInformation" ->
            [SerialNumber |-> 0, Model |-> <<>>, Type |-> 0, FirmwareVersion |-> <<>>,
             HardwareVersion |-> 0, ModState |-> 0, NumberChannels |-> 0]
      [] op = "GetTrapezoidalVelocity" ->
            [MinVelocity |-> FloatZero, MaxVelocity |-> FloatZero, Acceleration |-> FloatZero]
      [] op = "GetJogParameters" ->
            [Mode |-> 0, StepSize |-> FloatZero, MinVelocity |-> FloatZero,
             Acceleration |-> FloatZero, MaxVelocity |-> FloatZero, StopMode |-> 0]
      [] op \in {"GetRelativeMoveDistance", "GetAbsoluteMoveDistance"} -> FloatZero
      [] op = "GetDCStatusUpdate" ->
            [Channel |-> 0, Position |-> 0, Velocity |-> 0, Current |-> 0,
             StatusBits |-> Dword(0, 0)]
      [] OTHER -> <<>>

SetCall(c, r) == call' = [call EXCEPT ![c] = r]

\* a write whose failure is not passed on
DoWriteSwallowed(c, op, arg, bytes) ==
    \E werr \in WriteResults :
        /\ SetCall(c, Done(op, arg, <<Event("write", Len(bytes), bytes, werr)>>, ErrNil, <<>>))
        /\ UNCHANGED <<k, rx, tags, got>>

\* k.Communication.Write(bytes) as the whole of an operation's I/O
DoWrite(c, op, arg, bytes) ==
    \E werr \in WriteResults :
        /\ SetCall(c, Done(op, arg, <<Event("write", Len(bytes), bytes, werr)>>, werr, <<>>))
        /\ UNCHANGED <<k, rx, tags, got>>

DoWriteHeaderOnly(c, op, arg, msg) == DoWrite(c, op, arg, WriteHeaderOnlyBytes(msg))

DoWriteData(c, op, arg, msg) == DoWrite(c, op, arg, WriteDataBytes(msg))

\* a request that waits before it writes
DoRequestSettleFirst(c, op, arg, msg, shape, ms) ==
    \E werr \in WriteResults :
        LET bytes == WriteHeaderOnlyBytes(msg)
            wrote == Event("write", Len(bytes), bytes, werr)
        IN  /\ IF werr # ErrNil
               THEN SetCall(c, Done(op, arg, <<wrote>>, werr, ZeroVal(op)))
               ELSE SetCall(c, [pc |-> "header", op |-> op, arg |-> arg,
                                io |-> <<Event("sleep", ms, <<>>, ErrNil), wrote>>,
                                err |-> ErrNil, val |-> <<>>, shape |-> shape,
                                msg |-> InvalidData, replied |-> FALSE])
            /\ UNCHANGED <<k, rx, tags, got>>

\* a request that goes on to read whatever the write returned
DoRequestIgnoringWrite(c, op, arg, msg, shape, ms) ==
    \E werr \in WriteResults :
        LET bytes == WriteHeaderOnlyBytes(msg)
            wrote == Event("write", Len(bytes), bytes, werr)
        IN  /\ SetCall(c, [pc |-> "header", op |-> op, arg |-> arg,
                            io |-> <<wrote, Event("sleep", ms, <<>>, ErrNil)>>,
                            err |-> ErrNil, val |-> <<>>, shape |-> shape,
                            msg |-> InvalidData, replied |-> FALSE])
            /\ UNCHANGED <<k, rx, tags, got>>

\* RequestHeaderOnly / RequestData up to the read: write, then the settle delay
DoRequest(c, op, arg, msg, shape, ms) ==
    \E werr \in WriteResults :
        LET bytes == WriteHeaderOnlyBytes(msg)
            wrote == Event("write", Len(bytes), bytes, werr)
        IN  /\ IF werr # ErrNil
               THEN SetCall(c, Done(op, arg, <<wrote>>, werr, ZeroVal(op)))
               ELSE SetCall(c, [pc |-> "header", op |-> op, arg |-> arg,
                                io |-> <<wrote, Event("sleep", ms, <<>>, ErrNil)>>,
                                err |-> ErrNil, val |-> <<>>, shape |-> shape,
                                msg |-> InvalidData, replied |-> FALSE])
            /\ UNCHANGED <<k, rx, tags, got>>

DoRequestHeaderOnly(c, op, arg, msg) == DoRequest(c, op, arg, msg, "header", 15)

DoRequestData(c, op, arg, msg) == DoRequest(c, op, arg, msg, "data", 50)

\* ReadHeaderOnly / ReadData called on their own: the call starts at the read
DoRead(c, op, shape) ==
    /\ SetCall(c, [pc |-> "header", op |-> op, arg |-> <<>>, io |-> <<>>, err |-> ErrNil,
                   val |-> <<>>, shape |-> shape, msg |-> InvalidData, replied |-> FALSE])
    /\ UNCHANGED <<k, rx, tags, got>>

\* what an operation makes of a header-only reply
HeaderResult(op, response) ==
    IF op = "IsEnabled" THEN response.Parameter2 = \h01 ELSE response

GetInformationResult(data) ==
    IF Len(data) < 84
    THEN [err |-> ErrInvalidResponseLength, val |-> ZeroVal("GetInformation")]
    ELSE [err |-> ErrNil,
          val |-> [SerialNumber    |-> BytesToLong(Slice(data, 0, 4)),
                   Model           |-> Slice(data, 4, 12),
                   Type            |-> BytesToWord(Slice(data, 12, 14)),
                   FirmwareVersion |-> Slice(data, 14, 18),
                   HardwareVersion |-> BytesToWord(Slice(data, 78, 80)),
                   ModState        |-> BytesToWord(Slice(data, 80, 82)),
                   NumberChannels  |-> BytesToWord(Slice(data, 82, 84))]]

GetTrapezoidalVelocityResult(kdc, data) ==
    IF Len(data) < 14
    THEN [err |-> ErrInvalidResponseLength, val |-> ZeroVal("GetTrapezoidalVelocity")]
    ELSE [err |-> ErrNil,
          val |-> [MinVelocity  |-> CountsToVelocity(kdc, BytesToDword(Slice(data, 2, 6))),
                   Acceleration |-> CountsToAcceleration(kdc, BytesToLong(Slice(data, 6, 10))),
                   MaxVelocity  |-> CountsToVelocity(kdc, BytesToDword(Slice(data, 10, 14)))]]

GetJogParametersResult(kdc, data) ==
    IF Len(data) < 22
    THEN [err |-> ErrInvalidResponseLength, val |-> ZeroVal("GetJogParameters")]
    ELSE [err |-> ErrNil,
          val |-> [Mode         |-> BytesToWord(Slice(data, 2, 4)),
                   StepSize     |-> CountsToPosition(kdc, BytesToLong(Slice(data, 4, 8))),
                   MinVelocity  |-> CountsToVelocity(kdc, BytesToDword(Slice(data, 8, 12))),
                   Acceleration |-> CountsToAcceleration(kdc, BytesToLong(Slice(data, 12, 16))),
                   MaxVelocity  |-> CountsToVelocity(kdc, BytesToDword(Slice(data, 16, 20))),
                   StopMode     |-> BytesToWord(Slice(data, 20, 22))]]

GetMoveDistanceResult(kdc, op, data) ==
    IF Len(data) < 6
    THEN [err |-> ErrInvalidResponseLength, val |-> ZeroVal(op)]
    ELSE [err |-> ErrNil, val |-> CountsToPosition(kdc, BytesToLong(Slice(data, 2, 6)))]

DCStatusUpdateOf(data) ==
    [Channel    |-> BytesToWord(Slice(data, 0, 2)),
     Position   |-> BytesToLong(Slice(data, 2, 6)),
     Velocity   |-> BytesToWord(Slice(data, 6, 8)),
     Current    |-> BytesToShort(Slice(data, 8, 10)),
     StatusBits |-> BytesToDword(Slice(data, 10, 14))]

\* GetDCStatusUpdate slices data[0:2] .. data[10:14] without looking at len(data):
\* on a shorter payload the slice expression panics when the capacity is short
\* too, and otherwise reads what lies behind the payload
GetDCStatusUpdateResult(data) ==
    IF Len(data) >= 14
    THEN {[err |-> ErrNil, val |-> DCStatusUpdateOf(data)]}
    ELSE {[err |-> Panic, val |-> <<>>]} \cup
         {[err |-> ErrNil,
           val |-> DCStatusUpdateOf(data \o [i \in 1..(14 - Len(data)) |-> b])] :
              b \in StaleBytes}

\* what an operation makes of a data reply: the possible results
DataResult(op, kdc, response) ==
    CASE op = "GetInformation" -> {GetInformationResult(response.Data)}
      [] op = "GetTrapezoidalVelocity" -> {GetTrapezoidalVelocityResult(kdc, response.Data)}
      [] op = "GetJogParameters" -> {GetJogParametersResult(kdc, response.Data)}
      [] op \in {"GetRelativeMoveDistance", "GetAbsoluteMoveDistance"} ->
            {GetMoveDistanceResult(kdc, op, response.Data)}
      [] op = "GetDCStatusUpdate" -> GetDCStatusUpdateResult(response.Data)
      [] OTHER -> {[err |-> ErrNil, val |-> response]}

\* the device answers the call that is waiting for its reply
Device(c) ==
    /\ call[c].pc = "header"
    /\ ~call[c].replied
    /\ \E frame \in DeviceFrames(call[c].shape) :
          /\ rx' = rx \o frame
          /\ tags' = tags \o [i \in 1..Len(frame) |-> [for |-> c, at |-> i]]
          /\ SetCall(c, [call[c] EXCEPT !.replied = TRUE])
    /\ UNCHANGED <<k, got>>

\* response, err := k.Communication.Read(6), and what ReadHeaderOnly / ReadData do next
ReadHeader(c) ==
    LET cur == call[c]
    IN  /\ cur.pc = "header"
        /\ IF Len(rx) < 6
           THEN /\ SetCall(c, Done(cur.op, cur.arg,
                                   Append(cur.io, Event("read", 6, <<>>, ErrRead)),
                                   ErrRead, ZeroVal(cur.op)))
                /\ UNCHANGED <<k, rx, tags, got>>
           ELSE LET response == SubSeq(rx, 1, 6)
                    io == Append(cur.io, Event("read", 6, response, ErrNil))
                IN  /\ rx' = SubSeq(rx, 7, Len(rx))
                    /\ tags' = SubSeq(tags, 7, Len(tags))
                    /\ got' = [got EXCEPT ![c] = @ \o SubSeq(tags, 1, 6)]
                    /\ UNCHANGED k
                    /\ IF cur.shape = "header"
                       THEN SetCall(c, Done(cur.op, cur.arg, io, ErrNil,
                                            HeaderResult(cur.op, ReadHeaderOnlyMsg(response))))
                       ELSE LET msg == ReadDataMsg(response)
                            IN  IF msg.DataLength < 1
                                THEN SetCall(c, Done(cur.op, cur.arg, io,
                                                     ErrInvalidDataLength, ZeroVal(cur.op)))
                                ELSE SetCall(c, [cur EXCEPT !.pc = "payload", !.io = io,
                                                            !.msg = msg])

\* data, err := k.Communication.Read(uint(msg.DataLength)), then the caller's decoding
ReadPayload(c) ==
    LET cur == call[c]
        n == cur.msg.DataLength
    IN  /\ cur.pc = "payload"
        /\ IF Len(rx) < n
           THEN /\ SetCall(c, Done(cur.op, cur.arg,
                                   Append(cur.io, Event("read", n, <<>>, ErrRead)),
                                   ErrRead, ZeroVal(cur.op)))
                /\ UNCHANGED <<k, rx, tags, got>>
           ELSE LET data == SubSeq(rx, 1, n)
                    io == Append(cur.io, Event("read", n, data, ErrNil))
                    response == [cur.msg EXCEPT !.Data = data]
                IN  /\ rx' = SubSeq(rx, n + 1, Len(rx))
                    /\ tags' = SubSeq(tags, n + 1, Len(tags))
                    /\ got' = [got EXCEPT ![c] = @ \o SubSeq(tags, 1, n)]
                    /\ UNCHANGED k
                    /\ \E r \in DataResult(cur.op, k, response) :
                          SetCall(c, Done(cur.op, cur.arg, io, r.err, r.val))

\* the caller takes the result; its next call starts afresh
Return(c) ==
    /\ call[c].pc = "done"
    /\ SetCall(c, Idle)
    /\ got' = [got EXCEPT ![c] = <<>>]
    /\ UNCHANGED <<k, rx, tags>>

(***************************************************************************)
(* Construction (thorlabskdc101.go).                                       *)
(***************************************************************************)
New(c) ==
    /\ ~k.constructed
    /\ call[c].pc = "idle"
    /\ \E stage \in Stages, motor \in Motors :
          /\ k' = [StageType |-> stage, MotorType |-> motor, constructed |-> TRUE]
          /\ SetCall(c, Done("New", [stage |-> stage, motor |-> motor], <<>>, ErrNil, <<>>))
    /\ UNCHANGED <<rx, tags, got>>

(***************************************************************************)
(* Command catalogue (protocol/*.go).                                      *)
(***************************************************************************)
\* byte(1 << (channel - 1))
\* a refusal that comes after the request went out
RejectAfterWrite(c, op, arg) ==
    /\ SetCall(c, Done(op, arg, <<Event("write", 6, <<0, 0, 0, 0, GenericUnit, Host>>, ErrNil)>>,
                       ErrChannelNotSupported, ZeroVal(op)))
    /\ UNCHANGED <<k, rx, tags, got>>

\* if channel != 1 { return ErrChannelNotSupported }
Reject(c, op, arg) ==
    /\ SetCall(c, Done(op, arg, <<>>, ErrChannelNotSupported, ZeroVal(op)))
    /\ UNCHANGED <<k, rx, tags, got>>

Identify(c) ==
    /\ Ready(c)
    /\ \E channel \in Channels :
          IF channel # 1
          THEN Reject(c, "Identify", [channel |-> channel])
          ELSE DoWriteHeaderOnly(c, "Identify", [channel |-> channel],
                   [ID |-> \h0223, Parameter1 |-> ChannelMask(channel),
                    Parameter2 |-> \h00, Destination |-> GenericUnit, Source |-> Host])

GetInformation(c) ==
    /\ Ready(c)
    /\ DoRequestData(c, "GetInformation", <<>>,
           [ID |-> \h0005, Parameter1 |-> \h00, Parameter2 |-> \h00,
            Destination |-> GenericUnit, Source |-> Host])

StartHomeMove(c) ==
    /\ Ready(c)
    /\ \E channel \in Channels :
          IF channel # 1
          THEN Reject(c, "StartHomeMove", [channel |-> channel])
          ELSE DoWriteHeaderOnly(c, "StartHomeMove", [channel |-> channel],
                   [ID |-> \h0443, Parameter1 |-> ChannelMask(channel),
                    Parameter2 |-> \h00, Destination |-> GenericUnit, Source |-> Host])

StartRelativeMove(c) ==
    /\ Ready(c)
    /\ \E channel \in Channels :
          IF channel # 1
          THEN Reject(c, "StartRelativeMove", [channel |-> channel])
          ELSE DoWriteHeaderOnly(c, "StartRelativeMove", [channel |-> channel],
                   [ID |-> \h0448, Parameter1 |-> ChannelMask(channel),
                    Parameter2 |-> \h00, Destination |-> GenericUnit, Source |-> Host])

MoveRelativeDistance(c) ==
    /\ Ready(c)
    /\ \E channel \in Channels, distance \in Positions :
          IF channel # 1
          THEN Reject(c, "MoveRelativeDistance", [channel |-> channel, distance |-> distance])
          ELSE \E counts \in PositionToCounts(k, distance) :
                  LET data == <<ChannelMask(channel), \h00>> \o LongToBytes(counts)
                  IN  DoWriteData(c, "MoveRelativeDistance", [channel |-> channel, distance |-> distance],
                          [ID |-> \h0448, Data |-> data, DataLength |-> Len(data),
                           Destination |-> GenericUnit, Source |-> Host])

StartAbsoluteMove(c) ==
    /\ Ready(c)
    /\ \E channel \in Channels :
          IF channel # 1
          THEN Reject(c, "StartAbsoluteMove", [channel |-> channel])
          ELSE DoWriteHeaderOnly(c, "StartAbsoluteMove", [channel |-> channel],
                   [ID |-> \h0453, Parameter1 |-> ChannelMask(channel),
                    Parameter2 |-> \h00, Destination |-> GenericUnit, Source |-> Host])

MoveAbsolutePosition(c) ==
    /\ Ready(c)
    /\ \E channel \in Channels, position \in Positions :
          IF channel # 1
          THEN Reject(c, "MoveAbsolutePosition", [channel |-> channel, position |-> position])
          ELSE \E counts \in PositionToCounts(k, position) :
                  LET data == <<ChannelMask(channel), \h00>> \o LongToBytes(counts)
                  IN  DoWriteData(c, "MoveAbsolutePosition", [channel |-> channel, position |-> position],
                          [ID |-> \h0453, Data |-> data, DataLength |-> Len(data),
                           Destination |-> GenericUnit, Source |-> Host])

StartJogMove(c) ==
    /\ Ready(c)
    /\ \E channel \in Channels, direction \in {Forward, Reverse} :
          IF channel # 1
          THEN Reject(c, "StartJogMove", [channel |-> channel, direction |-> direction])
          ELSE DoWriteHeaderOnly(c, "StartJogMove", [channel |-> channel, direction |-> direction],
                   [ID |-> \h046A, Parameter1 |-> ChannelMask(channel),
                    Parameter2 |-> direction, Destination |-> GenericUnit, Source |-> Host])

MoveContinuous(c) ==
    /\ Ready(c)
    /\ \E channel \in Channels, direction \in {Forward, Reverse} :
          IF channel # 1
          THEN Reject(c, "MoveContinuous", [channel |-> channel, direction |-> direction])
          ELSE DoWriteHeaderOnly(c, "MoveContinuous", [channel |-> channel, direction |-> direction],
                   [ID |-> \h0457, Parameter1 |-> ChannelMask(channel),
                    Parameter2 |-> direction, Destination |-> GenericUnit, Source |-> Host])

Stop(c) ==
    /\ Ready(c)
    /\ \E channel \in Channels, mode \in {Abrupt, Soft} :
          IF channel # 1
          THEN Reject(c, "Stop", [channel |-> channel, mode |-> mode])
          ELSE DoWriteHeaderOnly(c, "Stop", [channel |-> channel, mode |-> mode],
                   [ID |-> \h0465, Parameter1 |-> ChannelMask(channel),
                    Parameter2 |-> mode, Destination |-> GenericUnit, Source |-> Host])

Enable(c) ==
    /\ Ready(c)
    /\ \E channel \in Channels, enable \in BOOLEAN :
          IF channel # 1
          THEN Reject(c, "Enable", [channel |-> channel, enable |-> enable])
          ELSE DoWriteHeaderOnly(c, "Enable", [channel |-> channel, enable |-> enable],
                   [ID |-> \h0224, Parameter1 |-> ChannelMask(channel),
                    Parameter2 |-> IF enable THEN \h01 ELSE \h02, Destination |-> GenericUnit, Source |-> Host])

IsEnabled(c) ==
    /\ Ready(c)
    /\ \E channel \in Channels :
          IF channel # 1
          THEN Reject(c, "IsEnabled", [channel |-> channel])
          ELSE DoRequestHeaderOnly(c, "IsEnabled", [channel |-> channel],
                   [ID |-> \h0211, Parameter1 |-> ChannelMask(channel),
                    Parameter2 |-> \h00, Destination |-> GenericUnit, Source |-> Host])

SetTrapezoidalVelocity(c) ==
    /\ Ready(c)
    /\ \E channel \in Channels, profile \in VelocityProfiles :
          IF channel # 1
          THEN Reject(c, "SetTrapezoidalVelocity", [channel |-> channel, profile |-> profile])
          ELSE \E data \in TrapezoidalVelocityData(k, channel, profile) :
                      DoWriteData(c, "SetTrapezoidalVelocity",
                          [channel |-> channel, profile |-> profile],
                          [ID |-> \h0413, Data |-> data, DataLength |-> Len(data),
                           Destination |-> GenericUnit, Source |-> Host])

GetTrapezoidalVelocity(c) ==
    /\ Ready(c)
    /\ \E channel \in Channels :
          IF channel # 1
          THEN Reject(c, "GetTrapezoidalVelocity", [channel |-> channel])
          ELSE DoRequestData(c, "GetTrapezoidalVelocity", [channel |-> channel],
                   [ID |-> \h0414, Parameter1 |-> ChannelMask(channel),
                    Parameter2 |-> \h00, Destination |-> GenericUnit, Source |-> Host])

SetJogParameters(c) ==
    /\ Ready(c)
    /\ \E channel \in Channels, params \in JogParameterSets :
          IF channel # 1
          THEN Reject(c, "SetJogParameters", [channel |-> channel, params |-> params])
          ELSE \E data \in JogParametersData(k, channel, params) :
                      DoWriteData(c, "SetJogParameters",
                          [channel |-> channel, params |-> params],
                          [ID |-> \h0416, Data |-> data, DataLength |-> Len(data),
                           Destination |-> GenericUnit, Source |-> Host])

GetJogParameters(c) ==
    /\ Ready(c)
    /\ \E channel \in Channels :
          IF channel # 1
          THEN Reject(c, "GetJogParameters", [channel |-> channel])
          ELSE DoRequestData(c, "GetJogParameters", [channel |-> channel],
                   [ID |-> \h0417, Parameter1 |-> ChannelMask(channel),
                    Parameter2 |-> \h00, Destination |-> GenericUnit, Source |-> Host])

SetRelativeMoveDistance(c) ==
    /\ Ready(c)
    /\ \E channel \in Channels, distance \in Positions :
          IF channel # 1
          THEN Reject(c, "SetRelativeMoveDistance", [channel |-> channel, distance |-> distance])
          ELSE \E counts \in PositionToCounts(k, distance) :
                  LET data == <<ChannelMask(channel), \h00>> \o LongToBytes(counts)
                  IN  DoWriteData(c, "SetRelativeMoveDistance", [channel |-> channel, distance |-> distance],
                          [ID |-> \h0445, Data |-> data, DataLength |-> Len(data),
                           Destination |-> GenericUnit, Source |-> Host])

GetRelativeMoveDistance(c) ==
    /\ Ready(c)
    /\ \E channel \in Channels :
          IF channel # 1
          THEN Reject(c, "GetRelativeMoveDistance", [channel |-> channel])
          ELSE DoRequestData(c, "GetRelativeMoveDistance", [channel |-> channel],
                   [ID |-> \h0446, Parameter1 |-> ChannelMask(channel),
                    Parameter2 |-> \h00, Destination |-> GenericUnit, Source |-> Host])

SetAbsoluteMoveDistance(c) ==
    /\ Ready(c)
    /\ \E channel \in Channels, position \in Positions :
          IF channel # 1
          THEN Reject(c, "SetAbsoluteMoveDistance", [channel |-> channel, position |-> position])
          ELSE \E counts \in PositionToCounts(k, position) :
                  LET data == <<ChannelMask(channel), \h00>> \o LongToBytes(counts)
                  IN  DoWriteData(c, "SetAbsoluteMoveDistance", [channel |-> channel, position |-> position],
                          [ID |-> \h0450, Data |-> data, DataLength |-> Len(data),
                           Destination |-> GenericUnit, Source |-> Host])

GetAbsoluteMoveDistance(c) ==
    /\ Ready(c)
    /\ \E channel \in Channels :
          IF channel # 1
          THEN Reject(c, "GetAbsoluteMoveDistance", [channel |-> channel])
          ELSE DoRequestData(c, "GetAbsoluteMoveDistance", [channel |-> channel],
                   [ID |-> \h0451, Parameter1 |-> ChannelMask(channel),
                    Parameter2 |-> \h00, Destination |-> GenericUnit, Source |-> Host])

GetDCStatusUpdate(c) ==
    /\ Ready(c)
    /\ \E channel \in Channels :
          IF channel # 1
          THEN Reject(c, "GetDCStatusUpdate", [channel |-> channel])
          ELSE DoRequestData(c, "GetDCStatusUpdate", [channel |-> channel],
                   [ID |-> \h0490, Parameter1 |-> ChannelMask(channel),
                    Parameter2 |-> \h00, Destination |-> GenericUnit, Source |-> Host])

\* statusSI := controller.DCStatusUpdateToSI(status), on the update just received
DCStatusUpdateToSI(c) ==
    /\ k.constructed
    /\ call[c].pc = "done"
    /\ call[c].op = "GetDCStatusUpdate"
    /\ call[c].err = ErrNil
    /\ SetCall(c, Done("DCStatusUpdateToSI", call[c].val, <<>>, ErrNil,
                       DCStatusUpdateToSIValue(k, call[c].val)))
    /\ UNCHANGED <<k, rx, tags, got>>

\* the exported pure methods, called on their own
CallParseDCStatusBits(c) ==
    /\ Ready(c)
    /\ \E statusBits \in StatusWords :
          SetCall(c, Done("ParseDCStatusBits", statusBits, <<>>, ErrNil,
                          ParseDCStatusBits(statusBits)))
    /\ UNCHANGED <<k, rx, tags, got>>

CallPositionToCounts(c) ==
    /\ Ready(c)
    /\ \E position \in Positions :
          \E counts \in PositionToCounts(k, position) :
             SetCall(c, Done("PositionToCounts", position, <<>>, ErrNil, counts))
    /\ UNCHANGED <<k, rx, tags, got>>

\* a conversion to counts followed by the conversion back; the values include
\* some whose count does not fit the 32-bit target
PositionRoundTrip(c) ==
    /\ Ready(c)
    /\ \E position \in Positions \cup {10 ^ 8, -(10 ^ 8)} :
          \E counts \in PositionToCounts(k, position) :
             SetCall(c, Done("CountsToPosition", [value |-> position, counts |-> counts],
                             <<>>, ErrNil, CountsToPosition(k, counts)))
    /\ UNCHANGED <<k, rx, tags, got>>

VelocityRoundTrip(c) ==
    /\ Ready(c)
    /\ \E velocity \in Velocities \cup {6 * 10 ^ 6, -1200} :
          \E counts \in VelocityToCounts(k, velocity) :
             SetCall(c, Done("CountsToVelocity", [value |-> velocity, counts |-> counts],
                             <<>>, ErrNil, CountsToVelocity(k, counts)))
    /\ UNCHANGED <<k, rx, tags, got>>

\* AccelerationToCounts returns a uint32, CountsToAcceleration takes an int32:
\* the count passes through the conversion int32(counts)
AccelerationRoundTrip(c) ==
    /\ Ready(c)
    /\ \E acceleration \in Accelerations \cup {-12} :
          \E counts \in AccelerationToCounts(k, acceleration) :
             SetCall(c, Done("CountsToAcceleration",
                             [value |-> acceleration, counts |-> counts],
                             <<>>, ErrNil, CountsToAcceleration(k, Int32OfUint32(counts))))
    /\ UNCHANGED <<k, rx, tags, got>>

\* the exported codec and transaction methods, called on their own
WriteHeaderOnly(c) ==
    Ready(c) /\ \E msg \in Headers : DoWriteHeaderOnly(c, "WriteHeaderOnly", msg, msg)

WriteData(c) ==
    Ready(c) /\ \E msg \in DataMessages : DoWriteData(c, "WriteData", msg, msg)

ReadHeaderOnly(c) == Ready(c) /\ DoRead(c, "ReadHeaderOnly", "header")

ReadData(c) == Ready(c) /\ DoRead(c, "ReadData", "data")

RequestHeaderOnly(c) ==
    Ready(c) /\ \E msg \in Requests : DoRequestHeaderOnly(c, "RequestHeaderOnly", msg, msg)

RequestData(c) ==
    Ready(c) /\ \E msg \in Requests : DoRequestData(c, "RequestData", msg, msg)

Next ==
    \E c \in Callers :
        \/ New(c)
        \/ Identify(c)
        \/ GetInformation(c)
        \/ StartHomeMove(c)
        \/ StartRelativeMove(c)
        \/ MoveRelativeDistance(c)
        \/ StartAbsoluteMove(c)
        \/ MoveAbsolutePosition(c)
        \/ StartJogMove(c)
        \/ MoveContinuous(c)
        \/ Stop(c)
        \/ Enable(c)
        \/ IsEnabled(c)
        \/ SetTrapezoidalVelocity(c)
        \/ GetTrapezoidalVelocity(c)
        \/ SetJogParameters(c)
        \/ GetJogParameters(c)
        \/ SetRelativeMoveDistance(c)
        \/ GetRelativeMoveDistance(c)
        \/ SetAbsoluteMoveDistance(c)
        \/ GetAbsoluteMoveDistance(c)
        \/ GetDCStatusUpdate(c)
        \/ DCStatusUpdateToSI(c)
        \/ CallParseDCStatusBits(c)
        \/ CallPositionToCounts(c)
        \/ PositionRoundTrip(c)
        \/ VelocityRoundTrip(c)
        \/ AccelerationRoundTrip(c)
        \/ WriteHeaderOnly(c)
        \/ WriteData(c)
        \/ ReadHeaderOnly(c)
        \/ ReadData(c)
        \/ RequestHeaderOnly(c)
        \/ RequestData(c)
        \/ Device(c)
        \/ ReadHeader(c)
        \/ ReadPayload(c)
        \/ Return(c)

Spec == Init /\ [][Next]_vars

(***************************************************************************)
(* Two callers on one controller, with nothing outside it to serialize     *)
(* them: each makes one call of a request operation on the controller      *)
(* built in TestMoveMotor.                                                 *)
(***************************************************************************)
ConcurrentCallers == {1, 2}

InitConc ==
    /\ k = [StageType |-> "MTS25-Z8", MotorType |-> "Brushed", constructed |-> TRUE]
    /\ call = [c \in ConcurrentCallers |-> Idle]
    /\ rx = <<>>
    /\ tags = <<>>
    /\ got = [c \in ConcurrentCallers |-> <<>>]

NextConc ==
    \E c \in ConcurrentCallers :
        \/ GetDCStatusUpdate(c)
        \/ IsEnabled(c)
        \/ Device(c)
        \/ ReadHeader(c)
        \/ ReadPayload(c)

SpecConc == InitConc /\ [][NextConc]_vars

(***************************************************************************)
(* Vocabulary of the properties.                                           *)
(***************************************************************************)
ChannelOps ==
    {"Identify", "Enable", "IsEnabled", "StartHomeMove", "StartRelativeMove",
     "MoveRelativeDistance", "StartAbsoluteMove", "MoveAbsolutePosition", "StartJogMove",
     "MoveContinuous", "Stop", "SetTrapezoidalVelocity", "GetTrapezoidalVelocity",
     "SetJogParameters", "GetJogParameters", "SetRelativeMoveDistance",
     "GetRelativeMoveDistance", "SetAbsoluteMoveDistance", "GetAbsoluteMoveDistance",
     "GetDCStatusUpdate"}

\* the operations that read a data reply
DataOps ==
    {"ReadData", "RequestData", "GetInformation", "GetTrapezoidalVelocity",
     "GetJogParameters", "GetRelativeMoveDistance", "GetAbsoluteMoveDistance",
     "GetDCStatusUpdate"}

IsRead(e) == e.ev = "read"

IsWrite(e) == e.ev = "write"

Reads(io) == SelectSeq(io, IsRead)

Writes(io) == SelectSeq(io, IsWrite)

RECURSIVE BytesOf(_)
BytesOf(events) ==
    IF events = <<>> THEN <<>> ELSE Head(events).bytes \o BytesOf(Tail(events))

\* little-endian values, stated on the bytes
LE16(b, i) == b[i] + 256 * b[i + 1]

SignedLE16(b, i) == b[i] + 256 * (IF b[i + 1] >= 128 THEN b[i + 1] - 256 ELSE b[i + 1])

SignedLE32(b, i) ==
    b[i] + 256 * b[i + 1] + 65536 * b[i + 2]
      + 16777216 * (IF b[i + 3] >= 128 THEN b[i + 3] - 256 ELSE b[i + 3])

\* bit i of a uint32
Bit(w, i) == IF i < 16 THEN (w.lo \div 2 ^ i) % 2 = 1 ELSE (w.hi \div 2 ^ (i - 16)) % 2 = 1

\* the status-bit table: the bit each named flag reports
FlagBit ==
    [CWHardLimit |-> 0, CCWHardLimit |-> 1, CWSoftLimit |-> 2, CCWSoftLimit |-> 3,
     InMotionCW |-> 4, InMotionCCW |-> 5, JoggingCW |-> 6, JoggingCCW |-> 7,
     IsConnected |-> 8, IsHoming |-> 9, IsHomed |-> 10, IsInitializing |-> 11,
     IsTracking |-> 12, IsSettled |-> 13, PositionError |-> 14, InstructionError |-> 15,
     Interlock |-> 16, OverTemperature |-> 17, BusVoltageFault |-> 18,
     CommutationError |-> 19, Overload |-> 24, EncoderFault |-> 25, OverCurrent |-> 26,
     BusCurrentFault |-> 27, PowerOk |-> 28, IsActive |-> 29, Error |-> 30, IsEnabled |-> 31]

TrueFlags(bits) == {f \in DOMAIN bits : bits[f]}

(***************************************************************************)
(* C1.  A channel other than 1 is refused before any Transport I/O: every  *)
(* operation that takes a channel returns ChannelNotSupported and its call *)
(* holds no write and no read.                                             *)
(***************************************************************************)
C1_ChannelRefusedBeforeIO ==
    \A c \in DOMAIN call :
        (call[c].op \in ChannelOps /\ call[c].arg.channel # 1)
            => /\ call[c].pc = "done"
               /\ call[c].err = ErrChannelNotSupported
               /\ call[c].io = <<>>

C1_Witness ==
    /\ call[1].op = "GetDCStatusUpdate"
    /\ call[1].arg.channel = 255
    /\ call[1].pc = "done"
    /\ call[1].err = ErrChannelNotSupported

(***************************************************************************)
(* C2.  A data reply whose header declares payload length 0 fails with the *)
(* invalid-data-length error after exactly one read, of 6 bytes.           *)
(***************************************************************************)
DeclaresNoPayload(io) ==
    /\ Reads(io) # <<>>
    /\ Reads(io)[1].err = ErrNil
    /\ Reads(io)[1].bytes[3] = 0
    /\ Reads(io)[1].bytes[4] = 0

C2_ZeroLengthFailsAfterOneRead ==
    \A c \in DOMAIN call :
        (call[c].op \in DataOps /\ DeclaresNoPayload(call[c].io))
            => /\ call[c].pc = "done"
               /\ call[c].err = ErrInvalidDataLength
               /\ Len(Reads(call[c].io)) = 1
               /\ Reads(call[c].io)[1].n = 6

C2_Witness ==
    /\ call[1].op = "GetDCStatusUpdate"
    /\ call[1].pc = "done"
    /\ DeclaresNoPayload(call[1].io)
    /\ call[1].err = ErrInvalidDataLength

(***************************************************************************)
(* C3.  Data-message round trip: the bytes WriteData sends for m carry     *)
(* 0x80 in byte 4, and ReadData on exactly those bytes returns m's ID,     *)
(* DataLength, Source and payload and m's Destination with the 0x80 bit    *)
(* masked off.                                                             *)
(***************************************************************************)
MaskedOff(dest) == IF dest >= 128 THEN dest - 128 ELSE dest

C3_DataRoundTripMasksDestination ==
    \A c \in DOMAIN call :
        (call[c].op = "ReadData" /\ call[c].pc = "done" /\ call[c].err = ErrNil)
            => \A m \in DataMessages :
                  BytesOf(Reads(call[c].io)) = WriteDataBytes(m)
                      => /\ WriteDataBytes(m)[5] >= 128
                         /\ call[c].val.Destination = MaskedOff(m.Destination)
                         /\ call[c].val.ID = m.ID
                         /\ call[c].val.DataLength = m.DataLength
                         /\ call[c].val.Source = m.Source
                         /\ call[c].val.Data = m.Data

(***************************************************************************)
(* C4.  Every operation that decodes a data reply returns the              *)
(* response-too-short error when the payload is shorter than its reply     *)
(* shape needs; none aborts or reads bytes that are not there.             *)
(***************************************************************************)
MinPayload(op) ==
    CASE op = "GetInformation" -> 84
      [] op = "GetTrapezoidalVelocity" -> 14
      [] op = "GetJogParameters" -> 22
      [] op \in {"GetRelativeMoveDistance", "GetAbsoluteMoveDistance"} -> 6
      [] op = "GetDCStatusUpdate" -> 14

DecodingOps ==
    {"GetInformation", "GetTrapezoidalVelocity", "GetJogParameters",
     "GetRelativeMoveDistance", "GetAbsoluteMoveDistance", "GetDCStatusUpdate"}

ShortPayload(cur) ==
    /\ cur.op \in DecodingOps
    /\ cur.pc = "done"
    /\ Len(Reads(cur.io)) = 2
    /\ Reads(cur.io)[2].err = ErrNil
    /\ Reads(cur.io)[2].n < MinPayload(cur.op)

C4_ShortReplyIsAnError ==
    \A c \in DOMAIN call :
        ShortPayload(call[c]) => call[c].err = ErrInvalidResponseLength

(***************************************************************************)
(* C5.  Construction with a stage or motor type outside the calibration    *)
(* tables fails with UnsupportedStageOrMotor; no controller runs with a    *)
(* missing (zero) scale or time factor.                                    *)
(***************************************************************************)
C5_ConstructionChecksCalibration ==
    /\ \A c \in DOMAIN call :
          (call[c].op = "New" /\ ~(call[c].arg.stage \in DOMAIN StageScalingFactor
                                   /\ call[c].arg.motor \in DOMAIN MotorTFactor))
              => call[c].err = "UnsupportedStageOrMotor"
    /\ k.constructed => (EncCount(k) # BigZero /\ TFactor(k).num # 0)

(***************************************************************************)
(* C6.  MoveAbsolutePosition(1, p) performs exactly one Transport write,   *)
(* of exactly 12 bytes, and no read: 53 04 06 00 D0 01, then 01 00 and     *)
(* PositionToCounts(p) as 4 little-endian two's-complement bytes.          *)
(***************************************************************************)
C6_MoveAbsolutePositionFrame ==
    \A c \in DOMAIN call :
        (call[c].op = "MoveAbsolutePosition" /\ call[c].arg.channel = 1)
            => /\ call[c].pc = "done"
               /\ Len(call[c].io) = 1
               /\ call[c].io[1].ev = "write"
               /\ call[c].io[1].n = 12
               /\ Len(call[c].io[1].bytes) = 12
               /\ SubSeq(call[c].io[1].bytes, 1, 8)
                     = <<\h53, \h04, \h06, \h00, \hD0, \h01, \h01, \h00>>
               /\ \A i \in 9..12 : call[c].io[1].bytes[i] \in Byte
               /\ SignedLE32(call[c].io[1].bytes, 9) \in PositionToCounts(k, call[c].arg.position)
               /\ call[c].err = call[c].io[1].err

C6_Witness ==
    /\ k.StageType = "MTS25-Z8"
    /\ k.MotorType = "Brushed"
    /\ call[1].op = "MoveAbsolutePosition"
    /\ call[1].arg = [channel |-> 1, position |-> 10000]
    /\ call[1].err = ErrNil
    /\ SubSeq(call[1].io[1].bytes, 9, 12) = <<\hCD, \h45, \h05, \h00>>

(***************************************************************************)
(* C7.  PositionToCounts(mm) is mm x stageScale truncated toward zero (the *)
(* int32 conversion of the product, for a product in the int32 range), not *)
(* rounded: on MTS25-Z8 / Brushed, PositionToCounts(10.0) = 345549.        *)
(***************************************************************************)
\* 1.0 in the unit of scale * thousandths
MilliOne(n) == BigMulSmall(BigFixed(BigOf(n)), 1000)

\* |v| <= |x * scale| < |v| + 1, with the sign of x
TruncatesTo(scale, x, v) ==
    /\ BigLeq(MilliOne(Abs(v)), BigMulSmall(scale, Abs(x)))
    /\ BigLess(BigMulSmall(scale, Abs(x)), MilliOne(Abs(v) + 1))
    /\ v # 0 => ((v < 0) <=> (x < 0))

\* |v| - 1/2 <= |x * scale| < |v| + 1/2, with the sign of x
RoundsTo(scale, x, v) ==
    /\ v # 0 => BigLeq(MilliOne(2 * Abs(v) - 1), BigMulSmall(scale, 2 * Abs(x)))
    /\ BigLess(BigMulSmall(scale, 2 * Abs(x)), MilliOne(2 * Abs(v) + 1))
    /\ v # 0 => ((v < 0) <=> (x < 0))

IsTenOnMTS25(cur) ==
    /\ k.StageType = "MTS25-Z8"
    /\ k.MotorType = "Brushed"
    /\ cur.arg = 10000

C7_PositionToCountsTruncates ==
    \A c \in DOMAIN call :
        (call[c].op = "PositionToCounts" /\ call[c].pc = "done")
            => /\ call[c].val \in MinInt32..MaxInt32
               /\ TruncatesTo(EncCount(k), call[c].arg, call[c].val)
               /\ IsTenOnMTS25(call[c]) => call[c].val = 345549

C7_Witness ==
    /\ call[1].op = "PositionToCounts"
    /\ call[1].pc = "done"
    /\ IsTenOnMTS25(call[1])
    /\ call[1].val = 345549

\* the claim as stated: the rounded product, 345550 in the scenario
C7_PositionToCountsRounds ==
    \A c \in DOMAIN call :
        (call[c].op = "PositionToCounts" /\ call[c].pc = "done")
            => /\ RoundsTo(EncCount(k), call[c].arg, call[c].val)
               /\ IsTenOnMTS25(call[c]) => call[c].val = 345550

(***************************************************************************)
(* C8.  ParseDCStatusBits never fails and sets each named flag to the bit  *)
(* of the status word the mask table gives it; the record has exactly 28   *)
(* named flags (bits 0..19 and 24..31), all true on 0xFFFFFFFF and all     *)
(* false on 0x00000000.                                                    *)
(***************************************************************************)
DecodesTable(statusBits, bits) ==
    /\ DOMAIN bits = DOMAIN FlagBit
    /\ \A f \in DOMAIN FlagBit : bits[f] = Bit(statusBits, FlagBit[f])
    /\ statusBits = Dword(\hFFFF, \hFFFF) => \A f \in DOMAIN bits : bits[f]
    /\ statusBits = Dword(0, 0) => \A f \in DOMAIN bits : ~bits[f]

C8_StatusFlagsFollowTable ==
    \A c \in DOMAIN call :
        (call[c].op = "ParseDCStatusBits" /\ call[c].pc = "done")
            => /\ call[c].err = ErrNil
               /\ DecodesTable(call[c].arg, call[c].val)
               /\ Cardinality(DOMAIN call[c].val) = 28

C8_Witness ==
    /\ call[1].op = "ParseDCStatusBits"
    /\ call[1].pc = "done"
    /\ call[1].arg = Dword(\hFFFF, \hFFFF)
    /\ \A f \in DOMAIN FlagBit : call[1].val[f]

\* the claim as stated: 27 named flags
C8_TwentySevenFlags ==
    \A c \in DOMAIN call :
        (call[c].op = "ParseDCStatusBits" /\ call[c].pc = "done")
            => /\ call[c].err = ErrNil
               /\ DecodesTable(call[c].arg, call[c].val)
               /\ Cardinality(DOMAIN call[c].val) = 27

(***************************************************************************)
(* C9.  GetDCStatusUpdate(1) sends 90 04 01 00 50 01 and decodes the reply *)
(* at fixed little-endian offsets (channel u16 at 0, position i32 at 2,    *)
(* velocity u16 at 6, current i16 at 8, statusBits u32 at 10), each field  *)
(* whose bytes the payload holds;                                          *)
(* DCStatusUpdateToSI passes channel and current through, and the reply    *)
(* channel 1, position 0x00054F2E, velocity 0x0032, current 0xFFF6,        *)
(* statusBits 0x80000401 yields exactly CWHardLimit, IsHomed and IsEnabled *)
(* true (0x401 is bit 0 and bit 10; IsConnected is bit 8).                 *)
(***************************************************************************)
C9_SendsRequest(cur) ==
    (cur.op = "GetDCStatusUpdate" /\ cur.arg.channel = 1)
        => /\ cur.io # <<>>
           /\ cur.io[1].ev = "write"
           /\ cur.io[1].bytes = <<\h90, \h04, \h01, \h00, \h50, \h01>>
           /\ Len(Writes(cur.io)) = 1

C9_DecodesOffsets(cur) ==
    (/\ cur.op = "GetDCStatusUpdate"
     /\ cur.pc = "done"
     /\ cur.err = ErrNil
     /\ Len(Reads(cur.io)) = 2)
        => LET d == Reads(cur.io)[2].bytes
           IN  /\ Len(d) >= 2 => cur.val.Channel = LE16(d, 1)
               /\ Len(d) >= 6 => cur.val.Position = SignedLE32(d, 3)
               /\ Len(d) >= 8 => cur.val.Velocity = LE16(d, 7)
               /\ Len(d) >= 10 => cur.val.Current = SignedLE16(d, 9)
               /\ Len(d) >= 14 => cur.val.StatusBits = Dword(LE16(d, 13), LE16(d, 11))

C9_PassesThrough(cur) ==
    cur.op = "DCStatusUpdateToSI"
        => /\ cur.val.Channel = cur.arg.Channel
           /\ cur.val.Current.den # BigZero
           /\ cur.val.Current.num = BigMulSmall(cur.val.Current.den, Abs(cur.arg.Current))
           /\ cur.val.Current.neg = (cur.arg.Current < 0)

ScenarioUpdate ==
    [Channel |-> 1, Position |-> 347950, Velocity |-> 50, Current |-> -10,
     StatusBits |-> Dword(\h8000, \h0401)]

C9_ScenarioFlags(cur, flags) ==
    (cur.op = "DCStatusUpdateToSI" /\ cur.arg = ScenarioUpdate)
        => TrueFlags(cur.val.StatusBits) = flags

C9_StatusUpdateDecoding ==
    \A c \in DOMAIN call :
        /\ C9_SendsRequest(call[c])
        /\ C9_DecodesOffsets(call[c])
        /\ C9_PassesThrough(call[c])
        /\ C9_ScenarioFlags(call[c], {"CWHardLimit", "IsHomed", "IsEnabled"})

C9_Witness ==
    /\ call[1].op = "DCStatusUpdateToSI"
    /\ call[1].arg = ScenarioUpdate
    /\ call[1].val.Channel = 1
    /\ call[1].val.Current.neg
    /\ TrueFlags(call[1].val.StatusBits) = {"CWHardLimit", "IsHomed", "IsEnabled"}

\* the claim as stated: the scenario yields IsConnected, IsHomed, IsEnabled
C9_ScenarioIsConnected ==
    \A c \in DOMAIN call :
        /\ C9_SendsRequest(call[c])
        /\ C9_DecodesOffsets(call[c])
        /\ C9_PassesThrough(call[c])
        /\ C9_ScenarioFlags(call[c], {"IsConnected", "IsHomed", "IsEnabled"})

(***************************************************************************)
(* C10.  Header round trip: WriteHeaderOnly(h) sends exactly the 6 bytes   *)
(* ID & 0xFF, ID >> 8, param1, param2, destination, source, and            *)
(* ReadHeaderOnly on exactly those bytes returns h in all five fields.     *)
(***************************************************************************)
HeaderBytes(h) ==
    <<h.ID % 256, h.ID \div 256, h.Parameter1, h.Parameter2, h.Destination, h.Source>>

C10_HeaderRoundTrip ==
    \A c \in DOMAIN call :
        /\ call[c].op = "WriteHeaderOnly"
              => /\ Len(call[c].io) = 1
                 /\ call[c].io[1].ev = "write"
                 /\ call[c].io[1].n = 6
                 /\ call[c].io[1].bytes = HeaderBytes(call[c].arg)
        /\ (call[c].op = "ReadHeaderOnly" /\ call[c].pc = "done" /\ call[c].err = ErrNil)
              => /\ Len(call[c].io) = 1
                 /\ call[c].io[1].n = 6
                 /\ \A h \in Headers :
                       call[c].io[1].bytes = HeaderBytes(h) => call[c].val = h

C10_Witness ==
    /\ call[1].op = "ReadHeaderOnly"
    /\ call[1].pc = "done"
    /\ call[1].err = ErrNil
    /\ call[1].val \in Headers
    /\ call[1].val.ID = \hFF80
    /\ call[1].val.Destination = \hD0
    /\ call[1].io[1].bytes = HeaderBytes(call[1].val)

(***************************************************************************)
(* C11.  The reserved bits 20..23 influence no named flag: two status      *)
(* words that differ only in those bits give identical flag records.       *)
(***************************************************************************)
\* the status word with bits 20..23 replaced by the four bits of r
WithReserved(statusBits, r) ==
    Dword(statusBits.hi - ((statusBits.hi \div 16) % 16) * 16 + r * 16, statusBits.lo)

ReservedBits(statusBits) == (statusBits.hi \div 16) % 16

C11_ReservedBitsIgnored ==
    \A c \in DOMAIN call :
        (call[c].op = "ParseDCStatusBits" /\ call[c].pc = "done")
            => \A r \in 0..15 :
                  ParseDCStatusBits(WithReserved(call[c].arg, r)) = call[c].val

\* a word whose only set bits are reserved ones decodes like 0x00000000
C11_Witness ==
    /\ call[1].op = "ParseDCStatusBits"
    /\ call[1].pc = "done"
    /\ call[1].arg.lo = 0
    /\ ReservedBits(call[1].arg) # 0
    /\ WithReserved(call[1].arg, 0) = Dword(0, 0)
    /\ TrueFlags(call[1].val) = {}

(***************************************************************************)
(* C14.  Every RequestHeaderOnly and RequestData call, and every operation *)
(* built on them, issues its Transport events in the order write (6-byte   *)
(* request), settle wait, read(6); RequestData then, when the declared     *)
(* length L is 1 or more, issues one further read of exactly L bytes and   *)
(* returns them as the payload.  No read precedes the write of its call    *)
(* and no call writes twice.                                               *)
(***************************************************************************)
HeaderRequestOps == {"RequestHeaderOnly", "IsEnabled"}

DataRequestOps == DataOps \ {"ReadData"}

DeclaredLength(header) == LE16(header, 3)

C14_Order(cur) ==
    /\ cur.pc # "done" \/ cur.io # <<>>
    /\ Len(cur.io) >= 1 => /\ cur.io[1].ev = "write"
                           /\ cur.io[1].n = 6
                           /\ Len(cur.io[1].bytes) = 6
    /\ Len(cur.io) >= 2 => /\ cur.io[2].ev = "sleep"
                           /\ cur.io[2].n = (IF cur.op \in HeaderRequestOps THEN 15 ELSE 50)
    /\ Len(cur.io) >= 3 => /\ cur.io[3].ev = "read"
                           /\ cur.io[3].n = 6
    /\ Len(cur.io) >= 4 => /\ cur.op \in DataRequestOps
                           /\ Len(cur.io) = 4
                           /\ cur.io[4].ev = "read"
                           /\ DeclaredLength(cur.io[3].bytes) >= 1
                           /\ cur.io[4].n = DeclaredLength(cur.io[3].bytes)
                           /\ cur.io[4].err = ErrNil => Len(cur.io[4].bytes) = cur.io[4].n
    /\ Len(Writes(cur.io)) <= 1

C14_PayloadRead(cur) ==
    /\ (/\ cur.op \in DataRequestOps
        /\ cur.pc = "done"
        /\ Len(cur.io) = 3
        /\ cur.io[3].err = ErrNil) => DeclaredLength(cur.io[3].bytes) = 0
    /\ (cur.op = "RequestData" /\ cur.pc = "done" /\ cur.err = ErrNil)
          => /\ Len(cur.io) = 4
             /\ cur.val.Data = cur.io[4].bytes
             /\ cur.val.DataLength = Len(cur.io[4].bytes)

C14_RequestEventOrder ==
    \A c \in DOMAIN call :
        (/\ call[c].op \in HeaderRequestOps \cup DataRequestOps
         /\ call[c].op \in ChannelOps => call[c].arg.channel = 1)
            => C14_Order(call[c]) /\ C14_PayloadRead(call[c])

C14_Witness ==
    /\ call[1].op = "RequestData"
    /\ call[1].pc = "done"
    /\ call[1].err = ErrNil
    /\ Len(call[1].io) = 4
    /\ call[1].io[4].n = 14
    /\ call[1].val.Data = DCReply

(***************************************************************************)
(* C15.  No operation retries or goes on after a Transport failure: a      *)
(* failed write or read is the last Transport call of its operation, and   *)
(* the operation returns that same error, never a success.                 *)
(***************************************************************************)
C15_NoCallAfterFailure ==
    \A c \in DOMAIN call :
        \A i \in 1..Len(call[c].io) :
            call[c].io[i].err # ErrNil
                => /\ i = Len(call[c].io)
                   /\ call[c].pc = "done"
                   /\ call[c].err = call[c].io[i].err
                   /\ call[c].err \in {ErrWrite, ErrRead}
                   /\ call[c].val = ZeroVal(call[c].op)

\* the header read of a data request fails: no payload read follows
C15_Witness ==
    /\ call[1].op = "GetTrapezoidalVelocity"
    /\ call[1].pc = "done"
    /\ Len(call[1].io) = 3
    /\ call[1].io[3].ev = "read"
    /\ call[1].io[3].err = ErrRead
    /\ call[1].err = ErrRead

(***************************************************************************)
(* C16.  Each no-reply operation called with channel 1 performs exactly    *)
(* one Transport write and no read, and returns exactly the result of that *)
(* write.                                                                  *)
(***************************************************************************)
NoReplyOps ==
    {"Identify", "Enable", "StartHomeMove", "StartRelativeMove", "MoveRelativeDistance",
     "StartAbsoluteMove", "MoveAbsolutePosition", "StartJogMove", "MoveContinuous", "Stop",
     "SetTrapezoidalVelocity", "SetJogParameters", "SetRelativeMoveDistance",
     "SetAbsoluteMoveDistance"}

C16_NoReplyOpsWriteOnce ==
    \A c \in DOMAIN call :
        (call[c].op \in NoReplyOps /\ call[c].arg.channel = 1)
            => /\ call[c].pc = "done"
               /\ Len(call[c].io) = 1
               /\ call[c].io[1].ev = "write"
               /\ Reads(call[c].io) = <<>>
               /\ call[c].err = call[c].io[1].err

C16_Witness ==
    /\ call[1].op = "Stop"
    /\ call[1].arg.channel = 1
    /\ call[1].pc = "done"
    /\ Len(Writes(call[1].io)) = 1
    /\ call[1].io[1].err = ErrWrite
    /\ call[1].err = ErrWrite

(***************************************************************************)
(* C13.  The controller has no internal mutual exclusion: a caller's       *)
(* request starts, and its reads proceed, whatever the other caller's call *)
(* is doing; so an interleaving is reachable in which one caller reads     *)
(* bytes of the reply to the other caller's request while that caller is   *)
(* between its write and the completion of its reads.                      *)
(***************************************************************************)
C13_NoMutualExclusion ==
    \A c \in DOMAIN call :
        /\ call[c].pc = "idle" => (ENABLED GetDCStatusUpdate(c)) /\ (ENABLED IsEnabled(c))
        /\ call[c].pc = "header" => ENABLED ReadHeader(c)
        /\ call[c].pc = "payload" => ENABLED ReadPayload(c)

\* caller 2's IsEnabled has read the header of the reply to caller 1's
\* GetDCStatusUpdate, which is still waiting for it
C13_Witness ==
    /\ DOMAIN call = ConcurrentCallers
    /\ call[1].op = "GetDCStatusUpdate"
    /\ call[1].pc = "header"
    /\ call[1].replied
    /\ call[2].op = "IsEnabled"
    /\ call[2].pc = "done"
    /\ call[2].err = ErrNil
    /\ Len(got[2]) = 6
    /\ \A i \in 1..6 : got[2][i].for = 1

(***************************************************************************)
(* C17.  Stream alignment.  With the calls serialized, the bytes read from *)
(* the Transport are the bytes the device has sent: between calls nothing  *)
(* is left unread, every read(6) starts on the first byte of a reply frame *)
(* and each call reads the reply to its own request, whole; also when the  *)
(* operation returns the invalid-response-length or invalid-data-length    *)
(* error.                                                                  *)
(***************************************************************************)
AllSucceeded(io) == \A i \in 1..Len(io) : io[i].err = ErrNil

\* the bytes the call has read are the first bytes of its own reply, in order
ReadsOwnReply(c) ==
    /\ Len(got[c]) = Len(BytesOf(Reads(call[c].io)))
    /\ \A i \in 1..Len(got[c]) : got[c][i] = [for |-> c, at |-> i]

C17_StreamAligned ==
    \A c \in DOMAIN call :
        /\ Len(tags) = Len(rx)
        /\ call[c].pc \in {"idle", "done"} => rx = <<>>
        /\ call[c].op # "DCStatusUpdateToSI" => ReadsOwnReply(c)
        /\ (/\ call[c].pc = "done"
            /\ call[c].op \in HeaderRequestOps \cup DataRequestOps
            /\ Reads(call[c].io) # <<>>
            /\ AllSucceeded(call[c].io))
              => Len(got[c]) = 6 + (IF call[c].op \in HeaderRequestOps THEN 0
                                    ELSE DeclaredLength(call[c].io[3].bytes))

C17_Witness ==
    /\ call[1].op = "GetRelativeMoveDistance"
    /\ call[1].pc = "done"
    /\ call[1].err = ErrInvalidResponseLength
    /\ AllSucceeded(call[1].io)
    /\ Len(got[1]) = 6 + 5
    /\ rx = <<>>

(***************************************************************************)
(* C12: conversion round trips.                                            *)
(***************************************************************************)
SupportedPair(kdc) ==
    kdc.StageType \in DOMAIN StageScalingFactor /\ kdc.MotorType \in DOMAIN MotorTFactor

\* |x / unit - back| <= one, for a result back and the result one of a single
\* count; both are quotients over the same denominator
WithinOneCount(x, unit, back, one) ==
    LET value == BigMulInt(back.den, Abs(x))
        result == BigMulSmall(back.num, unit)
        count == BigMulSmall(one.num, unit)
    IN  IF x = 0 \/ back.num = BigZero \/ back.neg = (x < 0)
        THEN BigLeq(value, BigAdd(result, count)) /\ BigLeq(result, BigAdd(value, count))
        ELSE BigLeq(BigAdd(value, result), count)

RoundTripOps == {"CountsToPosition", "CountsToVelocity", "CountsToAcceleration"}

\* the unit an argument of the conversion is counted in, and the value of one count
ArgumentUnit(op) == IF op = "CountsToAcceleration" THEN 10 ELSE 1000

OneCount(kdc, op) ==
    CASE op = "CountsToPosition"     -> CountsToPosition(kdc, 1)
      [] op = "CountsToVelocity"     -> CountsToVelocity(kdc, Dword(0, 1))
      [] op = "CountsToAcceleration" -> CountsToAcceleration(kdc, 1)

\* C12: on every supported stage and motor, converting a position, a velocity or
\* an acceleration to counts and back gives a value within one count of the
\* original, also when the count does not fit the 32-bit target.
C12_RoundTripWithinOneCount ==
    \A c \in Callers :
        (call[c].pc = "done" /\ call[c].op \in RoundTripOps /\ SupportedPair(k)) =>
            WithinOneCount(call[c].arg.value, ArgumentUnit(call[c].op), call[c].val,
                           OneCount(k, call[c].op))

\* the count fits its target: the conversion's outcome is a single one, and for
\* an acceleration it is below 2^31
CountFits(kdc, op, value) ==
    CASE op = "CountsToPosition"     -> Cardinality(PositionToCounts(kdc, value)) = 1
      [] op = "CountsToVelocity"     -> Cardinality(VelocityToCounts(kdc, value)) = 1
      [] op = "CountsToAcceleration" ->
            \A u \in AccelerationToCounts(kdc, value) :
                Cardinality(AccelerationToCounts(kdc, value)) = 1 /\ u.hi < 32768

\* the round trip of C12 for the values whose count fits: within one count
C12_InRangeRoundTrip ==
    \A c \in Callers :
        (/\ call[c].pc = "done" /\ call[c].op \in RoundTripOps /\ SupportedPair(k)
         /\ CountFits(k, call[c].op, call[c].arg.value)) =>
            WithinOneCount(call[c].arg.value, ArgumentUnit(call[c].op), call[c].val,
                           OneCount(k, call[c].op))

(***************************************************************************)
(* C18: what a setter writes and what its getter reads.                    *)
(***************************************************************************)
UnsignedLE32(b, i) == Dword(LE16(b, i + 2), LE16(b, i))

\* the value of a non-negative count, from the value of one count
CountValue(one, count) ==
    [neg |-> FALSE,
     num |-> BigAdd(BigMulSmall(BigMulSmall(one.num, count.hi), 65536),
                    BigMulSmall(one.num, count.lo)),
     den |-> one.den]

\* the payload the call's second read returned
ReplyPayload(cur) == Reads(cur.io)[2].bytes

\* the frames the two setters write on channel 1: the length field and the
\* place of every field
C18_SetterPayloads ==
    \A c \in Callers :
        LET cur == call[c]
            b == cur.io[1].bytes
        IN  /\ (cur.op = "SetTrapezoidalVelocity" /\ cur.arg.channel = 1) =>
                  /\ cur.pc = "done" /\ Len(cur.io) = 1 /\ cur.io[1].ev = "write"
                  /\ Len(b) = 6 + 14
                  /\ LE16(b, 3) = 14
                  /\ b[7] = \h01 /\ b[8] = \h00
                  /\ UnsignedLE32(b, 9) \in VelocityToCounts(k, cur.arg.profile.MinVelocity)
                  /\ UnsignedLE32(b, 13) \in AccelerationToCounts(k, cur.arg.profile.Acceleration)
                  /\ UnsignedLE32(b, 17) \in VelocityToCounts(k, cur.arg.profile.MaxVelocity)
            /\ (cur.op = "SetJogParameters" /\ cur.arg.channel = 1) =>
                  /\ cur.pc = "done" /\ Len(cur.io) = 1 /\ cur.io[1].ev = "write"
                  /\ Len(b) = 6 + 22
                  /\ LE16(b, 3) = 22
                  /\ b[7] = \h01 /\ b[8] = \h00
                  /\ LE16(b, 9) = cur.arg.params.Mode
                  /\ SignedLE32(b, 11) \in PositionToCounts(k, cur.arg.params.StepSize)
                  /\ UnsignedLE32(b, 15) \in VelocityToCounts(k, cur.arg.params.MinVelocity)
                  /\ UnsignedLE32(b, 19) \in AccelerationToCounts(k, cur.arg.params.Acceleration)
                  /\ UnsignedLE32(b, 23) \in VelocityToCounts(k, cur.arg.params.MaxVelocity)
                  /\ LE16(b, 27) = cur.arg.params.StopMode

\* the reply is a payload the setter writes for some argument
IsSetPayload(cur) ==
    \/ /\ cur.op = "GetTrapezoidalVelocity"
       /\ \E p \in VelocityProfiles : ReplyPayload(cur) \in TrapezoidalVelocityData(k, 1, p)
    \/ /\ cur.op = "GetJogParameters"
       /\ \E p \in JogParameterSets : ReplyPayload(cur) \in JogParametersData(k, 1, p)

\* the getter's result is the value of the very count the setter wrote: a
\* velocity and an acceleration as the unsigned count, a step as the signed one
RecoversCounts(cur) ==
    LET d == ReplyPayload(cur)
        velocity == OneCount(k, "CountsToVelocity")
        acceleration == OneCount(k, "CountsToAcceleration")
    IN  IF cur.op = "GetTrapezoidalVelocity"
        THEN /\ cur.val.MinVelocity = CountValue(velocity, UnsignedLE32(d, 3))
             /\ cur.val.Acceleration = CountValue(acceleration, UnsignedLE32(d, 7))
             /\ cur.val.MaxVelocity = CountValue(velocity, UnsignedLE32(d, 11))
        ELSE /\ cur.val.Mode = LE16(d, 3)
             /\ cur.val.StepSize = CountsToPosition(k, SignedLE32(d, 5))
             /\ cur.val.MinVelocity = CountValue(velocity, UnsignedLE32(d, 9))
             /\ cur.val.Acceleration = CountValue(acceleration, UnsignedLE32(d, 13))
             /\ cur.val.MaxVelocity = CountValue(velocity, UnsignedLE32(d, 17))
             /\ cur.val.StopMode = LE16(d, 21)

C18_GetterRecoversCounts ==
    \A c \in Callers :
        (/\ call[c].pc = "done"
         /\ call[c].op \in {"GetTrapezoidalVelocity", "GetJogParameters"}
         /\ call[c].err = ErrNil
         /\ SupportedPair(k)
         /\ IsSetPayload(call[c])) => RecoversCounts(call[c])

\* C18: SetJogParameters(1, p) writes a 22-byte payload and
\* SetTrapezoidalVelocity(1, v) a 14-byte one, with the stated fields; when the
\* device returns those bytes to the matching getter, the getter recovers the
\* same integer count for every field, acceleration counts of 2^31 or more
\* included.
C18_SetGetCountSymmetry == C18_SetterPayloads /\ C18_GetterRecoversCounts

\* the same, for the replies whose acceleration count is below 2^31
C18_BelowSignBit ==
    \A c \in Callers :
        (/\ call[c].pc = "done"
         /\ call[c].op \in {"GetTrapezoidalVelocity", "GetJogParameters"}
         /\ call[c].err = ErrNil
         /\ SupportedPair(k)
         /\ IsSetPayload(call[c])
         /\ ReplyPayload(call[c])[IF call[c].op = "GetJogParameters" THEN 16 ELSE 10] < 128)
            => RecoversCounts(call[c])

\* a getter has read a set payload whose acceleration count is not zero
C18_EchoRead ==
    \E c \in Callers :
        /\ call[c].pc = "done" /\ call[c].op = "GetJogParameters" /\ call[c].err = ErrNil
        /\ SupportedPair(k) /\ IsSetPayload(call[c])
        /\ ReplyPayload(call[c])[16] < 128 /\ ReplyPayload(call[c])[13] # 0

====
